---- MODULE Spec2Model ----
(***************************************************************************)
(* Model of the patient-record views of the emergency-department           *)
(* dashboard: the record filter of the data-table view (DataTable) and of  *)
(* the reports view (ReportsPanel), and the derived statistics of the      *)
(* dashboard and reports views (priority and disposition breakdowns, the   *)
(* hour-of-day histogram and the arrival trend), and the create, update,   *)
(* delete and bulk-import handlers of DataTable with the remote sheet     *)
(* they call.                                                              *)
(*                                                                         *)
(* JavaScript strings that the code inspects character by character are    *)
(* sequences of one-character strings; strings that the code only compares *)
(* for equality (id, prioritas, ket) are TLA+ strings.                     *)
(***************************************************************************)
EXTENDS Integers, Sequences, FiniteSets, TLC

VARIABLES
    viewState,          \* App: which view component is mounted
    data,               \* App: patientData, handed to every view
    searchTerm,         \* the mounted DataTable's / ReportsPanel's searchTerm
    startDate,          \* the mounted DataTable's / ReportsPanel's startDate
    endDate,            \* the mounted DataTable's / ReportsPanel's endDate
    filteredData,       \* DataTable: filteredData of the last render
    filteredPatients,   \* ReportsPanel: filteredPatients of the last render
    selectedIds,        \* DataTable: the ids of the ticked rows
    isFormOpen,         \* DataTable: PatientForm is mounted
    editingItem,        \* DataTable: <<>> for null, <<item>> for a record
    notification,       \* App: the message shown, NoNotification for null
    sheet,              \* the rows of the remote sheet below its header
    ops,                \* the handler calls waiting for a remote response
    started,            \* number of handler calls that issued a remote call
    lastConfirm,        \* the delete prompt answered in the last step, if any
    isLoading,          \* App: isLoading, a fetchData call is in flight
    budget,             \* number of remote-calling handler calls a run explores
    request,            \* the sheet script: the parameters of the last doPost
    result              \* the sheet script: the result of the last doPost

viewVars == <<viewState, data, searchTerm, startDate, endDate, filteredData,
              filteredPatients>>

vars == <<viewState, data, searchTerm, startDate, endDate, filteredData,
          filteredPatients, selectedIds, isFormOpen, editingItem,
          notification, sheet, ops, started, lastConfirm, isLoading, budget,
          request, result>>

\* what the handlers of DataTable and the views leave alone
restVars == <<isLoading, budget, request, result>>

----------------------------------------------------------------------------
(* Bounds *)

\* largest number of records in the collection
MaxRecords == 3

\* largest number of handler calls of a run that issue a remote call
MaxOps == 1

\* largest number of handler calls of a run that issue a remote call, where
\* the calls may overlap
MaxOverlap == 2

----------------------------------------------------------------------------
(* JavaScript strings *)

\* UTF-16 code unit of every character the model uses
CodeUnit ==
    [c \in {" ", "+", "-", "0", "1", "2", "3", "4", "5", "6", "7", "8", "9",
            ":", "A", "B", "D", "I", "K", "M", "O", "R", "U",
            "a", "b", "d", "i", "k", "m", "o", "r", "u", "z"} |->
        CASE c = " " -> 32 [] c = "+" -> 43 [] c = "-" -> 45
          [] c = "0" -> 48 [] c = "1" -> 49 [] c = "2" -> 50 [] c = "3" -> 51
          [] c = "4" -> 52 [] c = "5" -> 53 [] c = "6" -> 54 [] c = "7" -> 55
          [] c = "8" -> 56 [] c = "9" -> 57 [] c = ":" -> 58
          [] c = "A" -> 65 [] c = "B" -> 66 [] c = "D" -> 68 [] c = "I" -> 73
          [] c = "K" -> 75 [] c = "M" -> 77 [] c = "O" -> 79 [] c = "R" -> 82
          [] c = "U" -> 85
          [] c = "a" -> 97 [] c = "b" -> 98 [] c = "d" -> 100
          [] c = "i" -> 105 [] c = "k" -> 107 [] c = "m" -> 109
          [] c = "o" -> 111 [] c = "r" -> 114 [] c = "u" -> 117
          [] c = "z" -> 122]

\* String.prototype.toLowerCase on one character: A-Z move up by 32
LowerChar(c) ==
    IF CodeUnit[c] >= 65 /\ CodeUnit[c] <= 90
    THEN CHOOSE l \in DOMAIN CodeUnit : CodeUnit[l] = CodeUnit[c] + 32
    ELSE c

\* String.prototype.toLowerCase
toLowerCase(s) == [i \in 1..Len(s) |-> LowerChar(s[i])]

\* String.prototype.includes: t occurs in s as a contiguous substring
includes(s, t) ==
    \E i \in 0..(Len(s) - Len(t)) : SubSeq(s, i + 1, i + Len(t)) = t

\* the < operator on two strings: code units are compared left to right,
\* and a proper prefix is smaller
RECURSIVE StrLess(_, _)
StrLess(a, b) ==
    IF b = <<>> THEN FALSE
    ELSE IF a = <<>> THEN TRUE
    ELSE IF CodeUnit[Head(a)] < CodeUnit[Head(b)] THEN TRUE
    ELSE IF CodeUnit[Head(a)] > CodeUnit[Head(b)] THEN FALSE
    ELSE StrLess(Tail(a), Tail(b))

\* the > , <= and >= operators on two strings
StrGreater(a, b) == StrLess(b, a)
StrLessEq(a, b) == ~StrLess(b, a)
StrGreaterEq(a, b) == ~StrLess(a, b)

\* truthiness of a string: only the empty string is falsy
Truthy(s) == s # <<>>

----------------------------------------------------------------------------
(* The record filters *)

\* DataTableKeeps with exclusive date bounds (<= and >= for < and >)
DataTableKeepsExclusive(item, term, start, end) ==
    LET matchesSearch ==
            \/ includes(toLowerCase(item.namaPasien), toLowerCase(term))
            \/ includes(toLowerCase(item.noKib), toLowerCase(term))
            \/ includes(toLowerCase(item.dpjp), toLowerCase(term))
        itemDate == item.tanggal
        matchesDate ==
            IF Truthy(start) \/ Truthy(end)
            THEN /\ ~(Truthy(start) /\ StrLessEq(itemDate, start))
                 /\ ~(Truthy(end) /\ StrGreaterEq(itemDate, end))
            ELSE TRUE
    IN  matchesSearch /\ matchesDate

\* DataTable: the callback of data.filter in filteredData
DataTableKeeps(item, term, start, end) ==
    LET matchesSearch ==
            \/ includes(toLowerCase(item.namaPasien), toLowerCase(term))
            \/ includes(toLowerCase(item.noKib), toLowerCase(term))
            \/ includes(toLowerCase(item.dpjp), toLowerCase(term))
        itemDate == item.tanggal
        matchesDate ==
            IF Truthy(start) \/ Truthy(end)
            THEN /\ ~(Truthy(start) /\ StrLess(itemDate, start))
                 /\ ~(Truthy(end) /\ StrGreater(itemDate, end))
            ELSE TRUE
    IN  matchesSearch /\ matchesDate

\* ReportsKeeps with the search joined by || instead of &&
ReportsKeepsEither(p, term, start, end) ==
    LET matchesStartDate ==
            IF Truthy(start) THEN StrGreaterEq(p.tanggal, start) ELSE TRUE
        matchesEndDate ==
            IF Truthy(end) THEN StrLessEq(p.tanggal, end) ELSE TRUE
        matchesSearch ==
            IF Truthy(term)
            THEN \/ includes(toLowerCase(p.namaPasien), toLowerCase(term))
                 \/ includes(p.noKib, term)
            ELSE TRUE
    IN  (matchesStartDate /\ matchesEndDate) \/ matchesSearch

\* ReportsKeeps with reversed bounds put in order before they are compared
ReportsKeepsSwapping(p, term, start, end) ==
    LET swap == Truthy(start) /\ Truthy(end) /\ StrGreater(start, end)
        lo == IF swap THEN end ELSE start
        hi == IF swap THEN start ELSE end
        matchesStartDate ==
            IF Truthy(lo) THEN StrGreaterEq(p.tanggal, lo) ELSE TRUE
        matchesEndDate ==
            IF Truthy(hi) THEN StrLessEq(p.tanggal, hi) ELSE TRUE
        matchesSearch ==
            IF Truthy(term)
            THEN \/ includes(toLowerCase(p.namaPasien), toLowerCase(term))
                 \/ includes(p.noKib, term)
            ELSE TRUE
    IN  matchesStartDate /\ matchesEndDate /\ matchesSearch

\* ReportsPanel: the callback of data.patients.filter in filteredPatients
ReportsKeeps(p, term, start, end) ==
    LET matchesStartDate ==
            IF Truthy(start) THEN StrGreaterEq(p.tanggal, start) ELSE TRUE
        matchesEndDate ==
            IF Truthy(end) THEN StrLessEq(p.tanggal, end) ELSE TRUE
        matchesSearch ==
            IF Truthy(term)
            THEN \/ includes(toLowerCase(p.namaPasien), toLowerCase(term))
                 \/ includes(p.noKib, term)
            ELSE TRUE
    IN  matchesStartDate /\ matchesEndDate /\ matchesSearch

\* a filter that removes in place while it iterates: the element after a
\* removed one is never tested
RECURSIVE FilteredDataSkipping(_, _, _, _)
FilteredDataSkipping(d, term, start, end) ==
    IF d = <<>> THEN <<>>
    ELSE IF DataTableKeeps(Head(d), term, start, end)
         THEN <<Head(d)>> \o FilteredDataSkipping(Tail(d), term, start, end)
         ELSE IF Tail(d) = <<>> THEN <<>>
         ELSE <<Head(Tail(d))>>
              \o FilteredDataSkipping(Tail(Tail(d)), term, start, end)

\* Array.prototype.filter with the DataTable callback: one pass, front to
\* back, keeping the elements the callback accepts
RECURSIVE FilteredData(_, _, _, _)
FilteredData(d, term, start, end) ==
    IF d = <<>> THEN <<>>
    ELSE IF DataTableKeeps(Head(d), term, start, end)
         THEN <<Head(d)>> \o FilteredData(Tail(d), term, start, end)
         ELSE FilteredData(Tail(d), term, start, end)

\* Array.prototype.filter with the ReportsPanel callback
RECURSIVE FilteredPatients(_, _, _, _)
FilteredPatients(d, term, start, end) ==
    IF d = <<>> THEN <<>>
    ELSE IF ReportsKeeps(Head(d), term, start, end)
         THEN <<Head(d)>> \o FilteredPatients(Tail(d), term, start, end)
         ELSE FilteredPatients(Tail(d), term, start, end)

----------------------------------------------------------------------------
(* JavaScript numbers and parseInt *)

\* a number value: an integer, or NaN
JsNum(n) == [isNaN |-> FALSE, val |-> n]
JsNaN == [isNaN |-> TRUE, val |-> 0]

\* the postfix ++ on a property: undefined and NaN become NaN
Increment(v) == IF v.isNaN THEN JsNaN ELSE JsNum(v.val + 1)

Digits == {"0", "1", "2", "3", "4", "5", "6", "7", "8", "9"}
DigitVal(c) == CodeUnit[c] - 48

\* String.prototype.split(':')[0]: the text before the first colon, or the
\* whole string when it has none
RECURSIVE SplitFirst(_)
SplitFirst(s) ==
    IF s = <<>> \/ Head(s) = ":" THEN <<>>
    ELSE <<Head(s)>> \o SplitFirst(Tail(s))

\* parseInt, step 1: leading white space is skipped
RECURSIVE TrimStart(_)
TrimStart(s) == IF s # <<>> /\ Head(s) = " " THEN TrimStart(Tail(s)) ELSE s

\* parseInt, step 3: the value of the longest prefix of decimal digits,
\* acc being the value of the digits read so far
RECURSIVE DigitsValue(_, _)
DigitsValue(s, acc) ==
    IF s # <<>> /\ Head(s) \in Digits
    THEN DigitsValue(Tail(s), 10 * acc + DigitVal(Head(s)))
    ELSE acc

\* parseInt(string) without a radix, on strings with no 0x prefix: white
\* space, an optional sign, then decimal digits; NaN when no digit follows
parseInt(str) ==
    LET t == TrimStart(str)
        neg == t # <<>> /\ Head(t) = "-"
        body == IF t # <<>> /\ Head(t) \in {"+", "-"} THEN Tail(t) ELSE t
    IN  IF body = <<>> \/ Head(body) \notin Digits THEN JsNaN
        ELSE IF neg THEN JsNum(0 - DigitsValue(body, 0))
        ELSE JsNum(DigitsValue(body, 0))

\* Number to string in a template literal, for integers
DigitChar == <<"0", "1", "2", "3", "4", "5", "6", "7", "8", "9">>

RECURSIVE NatToString(_)
NatToString(n) ==
    IF n < 10 THEN <<DigitChar[n + 1]>>
    ELSE Append(NatToString(n \div 10), DigitChar[(n % 10) + 1])

IntToString(n) == IF n < 0 THEN <<"-">> \o NatToString(0 - n) ELSE NatToString(n)

----------------------------------------------------------------------------
(* Derived statistics of DashboardPanel and ReportsPanel *)

\* number of elements Array.prototype.filter keeps for prioritas === p
RECURSIVE CountPrioritas(_, _)
CountPrioritas(patients, p) ==
    IF patients = <<>> THEN 0
    ELSE (IF Head(patients).prioritas = p THEN 1 ELSE 0)
         + CountPrioritas(Tail(patients), p)

\* the literal with its last class left out
PriorityNamesShort == <<"P1", "P2", "P3", "P4">>

\* the literal ['P1', 'P2', 'P3', 'P4', 'P5']
PriorityNames == <<"P1", "P2", "P3", "P4", "P5">>

\* priorityData: the literal mapped to {name, value}
PriorityData(patients) ==
    [i \in 1..Len(PriorityNames) |->
        [name |-> PriorityNames[i],
         value |-> CountPrioritas(patients, PriorityNames[i])]]

\* StatusCountsPut that starts a new entry for every record
StatusCountsPutAppend(counts, ket) ==
    Append(counts, [name |-> ket, value |-> 0 + 1])

\* statusCounts[p.ket] = (statusCounts[p.ket] || 0) + 1 on an object whose
\* keys are kept in insertion order: counts is the sequence of its
\* properties {name, value}
StatusCountsPut(counts, ket) ==
    IF \E i \in 1..Len(counts) : counts[i].name = ket
    THEN [i \in 1..Len(counts) |->
            IF counts[i].name = ket
            THEN [name |-> ket, value |-> counts[i].value + 1]
            ELSE counts[i]]
    ELSE Append(counts, [name |-> ket, value |-> 0 + 1])

\* the forEach that fills statusCounts, started from counts
RECURSIVE StatusCounts(_, _)
StatusCounts(patients, counts) ==
    IF patients = <<>> THEN counts
    ELSE StatusCounts(Tail(patients), StatusCountsPut(counts, Head(patients).ket))

\* statusData: Object.keys(statusCounts) mapped to {name, value}
StatusData(patients) == StatusCounts(patients, <<>>)

\* Array(24).fill(0): the array is the function from its own keys to values
EmptyTimeBins == [h \in 0..23 |-> JsNum(0)]

\* the body of the forEach that fills timeBins, for one record
TimeBinsPut(bins, p) ==
    IF Truthy(p.jamDatang) /\ p.jamDatang # <<"-">>
    THEN LET hour == parseInt(SplitFirst(p.jamDatang))
         IN  IF ~hour.isNaN
             THEN [k \in DOMAIN bins \cup {hour.val} |->
                     IF k = hour.val
                     THEN (IF k \in DOMAIN bins THEN Increment(bins[k]) ELSE JsNaN)
                     ELSE bins[k]]
             ELSE bins
    ELSE bins

\* the forEach that fills timeBins, started from bins
RECURSIVE TimeBinsFrom(_, _)
TimeBinsFrom(patients, bins) ==
    IF patients = <<>> THEN bins
    ELSE TimeBinsFrom(Tail(patients), TimeBinsPut(bins, Head(patients)))

TimeBins(patients) == TimeBinsFrom(patients, EmptyTimeBins)

\* the length of an array: one more than its largest index
ArrayLength(bins) ==
    LET idx == {k \in DOMAIN bins : k >= 0}
    IN  IF idx = {} THEN 0 ELSE 1 + CHOOSE m \in idx : \A k \in idx : k <= m

\* the display window with its upper end at the last bucket
InDisplayWindowWide(i) == i >= 6 /\ i <= 23

\* the callback of the filter in arrivalTrendData
InDisplayWindow(i) == i >= 6 /\ i <= 22

\* timeBins.map(...).filter(...), from index i on, for an array of length
\* len: map and filter visit the indices below the length in ascending
\* order and skip the holes
RECURSIVE ArrivalTrendFrom(_, _, _)
ArrivalTrendFrom(bins, i, len) ==
    IF i >= len THEN <<>>
    ELSE IF i \in DOMAIN bins /\ InDisplayWindow(i)
         THEN <<[name |-> IntToString(i) \o <<":", "0", "0">>, pasien |-> bins[i]]>>
              \o ArrivalTrendFrom(bins, i + 1, len)
         ELSE ArrivalTrendFrom(bins, i + 1, len)

ArrivalTrendData(bins) == ArrivalTrendFrom(bins, 0, ArrayLength(bins))

\* patients.filter(p => p.ket === 'Rawat Inap').length
RawatInap(patients) ==
    Cardinality({i \in 1..Len(patients) : patients[i].ket = "Rawat Inap"})

SpecialistsKeepingDash(patients) ==
    {patients[i].dokterSpesialis :
        i \in {j \in 1..Len(patients) : Truthy(patients[j].dokterSpesialis)}}

\* new Set(patients.map(p => p.dokterSpesialis).filter(s => s && s !== '-'))
Specialists(patients) ==
    {patients[i].dokterSpesialis :
        i \in {j \in 1..Len(patients) :
                  /\ Truthy(patients[j].dokterSpesialis)
                  /\ patients[j].dokterSpesialis # <<"-">>}}

\* specialists.size
TotalSpecialists(patients) == Cardinality(Specialists(patients))

\* the quotient num/den of two counts as a JavaScript number; 0/0 is NaN.
\* The quotients of the counts in reach are kept exact: none of them
\* times 100 lies within a rounding error of a half.
Divide(num, den) ==
    IF den = 0 THEN [isNaN |-> TRUE, num |-> 0, den |-> 1]
    ELSE [isNaN |-> FALSE, num |-> num, den |-> den]

\* x * k
Times(x, k) == [x EXCEPT !.num = x.num * k]

OrZeroAbsent(x) == x

\* x || 0: NaN and 0 are falsy
OrZero(x) ==
    IF x.isNaN \/ x.num = 0 THEN [isNaN |-> FALSE, num |-> 0, den |-> 1] ELSE x

\* Math.round of a number that is not negative: the nearest integer, a half
\* goes up; NaN stays NaN
MathRound(x) ==
    IF x.isNaN THEN JsNaN ELSE JsNum((2 * x.num + x.den) \div (2 * x.den))

\* Math.round((rawatInap/totalPatients)*100 || 0)
RawatInapPercent(rawatInap, totalPatients) ==
    MathRound(OrZero(Times(Divide(rawatInap, totalPatients), 100)))

----------------------------------------------------------------------------
(* Inputs *)

\* records that differ in the fields the filters read
FilterPool == {
    [id |-> "f1", tanggal |-> <<"2", "0", "2", "4", "-", "0", "1", "-", "0", "5">>,
     noKib |-> <<"R", "M", "1">>, namaPasien |-> <<"A", "d", "i">>,
     dpjp |-> <<"d", "r", " ", "B", "o">>,
     dokterSpesialis |-> <<"S", "p", "A">>,
     prioritas |-> "P1", ket |-> "Rawat Inap", jamDatang |-> <<"1", "4", ":", "3", "0">>],
    [id |-> "f2", tanggal |-> <<"2", "0", "2", "4", "-", "0", "1", "-", "1", "0">>,
     noKib |-> <<"r", "m", "2">>, namaPasien |-> <<"B", "U", "D", "I">>,
     dpjp |-> <<"D", "r", " ", "I", "d", "a">>,
     dokterSpesialis |-> <<"-">>,
     prioritas |-> "P2", ket |-> "Rawat Jalan", jamDatang |-> <<"0", "8", ":", "1", "5">>],
    [id |-> "f3", tanggal |-> <<"2", "0", "2", "4", "-", "0", "1", "-", "0", "7">>,
     noKib |-> <<"K", "3">>, namaPasien |-> <<"I", "d", "a">>,
     dpjp |-> <<>>,
     dokterSpesialis |-> <<>>,
     prioritas |-> "P3", ket |-> "Rawat Jalan", jamDatang |-> <<"-">>],
    [id |-> "f4", tanggal |-> <<"2", "0", "2", "4", "-", "0", "1", "-", "1", "0">>,
     noKib |-> <<"1", "2">>, namaPasien |-> <<"a", "d", "i">>,
     dpjp |-> <<"d", "r", " ", "A", "d", "i">>,
     dokterSpesialis |-> <<"S", "p", "B">>,
     prioritas |-> "P1", ket |-> "Rujuk", jamDatang |-> <<"2", "1", ":", "0", "0">>],
    [id |-> "f5", tanggal |-> <<>>,
     noKib |-> <<"R", "M", "5">>, namaPasien |-> <<"B", "o">>,
     dpjp |-> <<"d", "r", " ", "I", "d", "a">>,
     dokterSpesialis |-> <<"S", "p", "A">>,
     prioritas |-> "P5", ket |-> "Rawat Inap", jamDatang |-> <<>>]}

\* records that differ in the fields the statistics read
StatsPool == {
    [id |-> "s1", tanggal |-> <<"2", "0", "2", "4", "-", "0", "1", "-", "0", "5">>,
     noKib |-> <<"R", "M", "1">>, namaPasien |-> <<"A", "d", "i">>,
     dpjp |-> <<"d", "r", " ", "B", "o">>,
     dokterSpesialis |-> <<"S", "p", "A">>,
     prioritas |-> "P1", ket |-> "Rawat Inap", jamDatang |-> <<"1", "4", ":", "3", "0">>],
    [id |-> "s2", tanggal |-> <<"2", "0", "2", "4", "-", "0", "1", "-", "0", "7">>,
     noKib |-> <<"R", "M", "2">>, namaPasien |-> <<"B", "u", "d", "i">>,
     dpjp |-> <<"d", "r", " ", "B", "o">>,
     dokterSpesialis |-> <<"S", "p", "A">>,
     prioritas |-> "P1", ket |-> "Rawat Jalan", jamDatang |-> <<"1", "4", ":", "0", "5">>],
    [id |-> "s3", tanggal |-> <<"2", "0", "2", "4", "-", "0", "1", "-", "1", "0">>,
     noKib |-> <<"R", "M", "3">>, namaPasien |-> <<"I", "d", "a">>,
     dpjp |-> <<"d", "r", " ", "B", "o">>,
     dokterSpesialis |-> <<"-">>,
     prioritas |-> "P2", ket |-> "Rawat Inap", jamDatang |-> <<"-">>],
    [id |-> "s4", tanggal |-> <<"2", "0", "2", "4", "-", "0", "1", "-", "0", "5">>,
     noKib |-> <<"R", "M", "4">>, namaPasien |-> <<"D", "i", "a">>,
     dpjp |-> <<"d", "r", " ", "B", "o">>,
     dokterSpesialis |-> <<>>,
     prioritas |-> "P5", ket |-> "Rujuk", jamDatang |-> <<>>],
    [id |-> "s5", tanggal |-> <<"2", "0", "2", "4", "-", "0", "1", "-", "0", "7">>,
     noKib |-> <<"R", "M", "5">>, namaPasien |-> <<"B", "o">>,
     dpjp |-> <<"d", "r", " ", "B", "o">>,
     dokterSpesialis |-> <<"S", "p", "B">>,
     prioritas |-> "P6", ket |-> "Meninggal", jamDatang |-> <<"2", "5", ":", "9", "9">>],
    [id |-> "s6", tanggal |-> <<"2", "0", "2", "4", "-", "0", "1", "-", "1", "0">>,
     noKib |-> <<"R", "M", "6">>, namaPasien |-> <<"A", "d", "i">>,
     dpjp |-> <<"d", "r", " ", "B", "o">>,
     dokterSpesialis |-> <<"-">>,
     prioritas |-> "P3", ket |-> "Rawat Jalan", jamDatang |-> <<"0", "6", ":", "0", "0">>],
    [id |-> "s7", tanggal |-> <<"2", "0", "2", "4", "-", "0", "1", "-", "0", "5">>,
     noKib |-> <<"R", "M", "7">>, namaPasien |-> <<"B", "u", "d", "i">>,
     dpjp |-> <<"d", "r", " ", "B", "o">>,
     dokterSpesialis |-> <<"S", "p", "B">>,
     prioritas |-> "P4", ket |-> "Pulang Paksa", jamDatang |-> <<"2", "3", ":", "1", "0">>],
    [id |-> "s8", tanggal |-> <<"2", "0", "2", "4", "-", "0", "1", "-", "0", "7">>,
     noKib |-> <<"R", "M", "8">>, namaPasien |-> <<"I", "d", "a">>,
     dpjp |-> <<"d", "r", " ", "B", "o">>,
     dokterSpesialis |-> <<>>,
     prioritas |-> "P3", ket |-> "Rawat Jalan", jamDatang |-> <<"a", "b", ":", "3", "0">>],
    [id |-> "s9", tanggal |-> <<"2", "0", "2", "4", "-", "0", "1", "-", "1", "0">>,
     noKib |-> <<"R", "M", "9">>, namaPasien |-> <<"D", "i", "a">>,
     dpjp |-> <<"d", "r", " ", "B", "o">>,
     dokterSpesialis |-> <<"S", "p", "A">>,
     prioritas |-> "P2", ket |-> "Rawat Inap", jamDatang |-> <<"-", "1", ":", "0", "0">>]}

\* the collections of at most MaxRecords records of a pool, ids distinct
Collections(pool) ==
    UNION {{d \in [1..n -> pool] : \A i, j \in 1..n : i # j => d[i].id # d[j].id}
           : n \in 0..MaxRecords}

\* texts typed into the search box
SearchTerms == {<<>>, <<"a", "d", "i">>, <<"r", "m">>, <<"R", "M">>, <<"b", "o">>, <<"z", "z">>}

\* values of the two date inputs: empty, or a date as YYYY-MM-DD
DateInputs == {<<>>, <<"2", "0", "2", "4", "-", "0", "1", "-", "0", "5">>,
               <<"2", "0", "2", "4", "-", "0", "1", "-", "0", "7">>,
               <<"2", "0", "2", "4", "-", "0", "1", "-", "1", "0">>}

\* the search texts and dates typed while the statistics are examined
StatsSearchTerms == {<<>>, <<"a", "d", "i">>}
StatsDateInputs == {<<>>, <<"2", "0", "2", "4", "-", "0", "1", "-", "0", "7">>}

\* the enum ViewState
ViewStates == {"DASHBOARD", "DATA_PASIEN", "REPORTS", "ANALYTICS", "SETTINGS"}

----------------------------------------------------------------------------
(* The views *)

\* a value of a component that is not mounted
NotMounted == <<>>

\* useState<string | null>(null) of App's notification
NoNotification == "null"

\* the handler calls in flight after their component was unmounted: the
\* state setters of the unmounted DataTable have no effect any more
Unmounted(pending) == [k \in 1..Len(pending) |-> [pending[k] EXCEPT !.mounted = FALSE]]

\* one render of the mounted view from App's patientData d and the view's
\* own state
Render(v, d, term, start, end) ==
    /\ filteredData' =
          IF v = "DATA_PASIEN" THEN FilteredData(d, term, start, end)
          ELSE NotMounted
    /\ filteredPatients' =
          IF v = "REPORTS" THEN FilteredPatients(d, term, start, end)
          ELSE NotMounted

\* the collection the statistics of the mounted view are computed from:
\* data.patients in DashboardPanel, filteredPatients in ReportsPanel
patients == IF viewState = "DASHBOARD" THEN data ELSE filteredPatients

\* the statistics DashboardPanel and ReportsPanel compute in a render
priorityData == PriorityData(patients)
statusData == StatusData(patients)
timeBins == TimeBins(patients)
arrivalTrendData == ArrivalTrendData(timeBins)

\* the summary cards DashboardPanel computes in a render
totalPatients == Len(patients)
rawatInap == RawatInap(patients)
totalSpecialists == TotalSpecialists(patients)
rawatInapPercent == RawatInapPercent(rawatInap, totalPatients)

\* the state after construction: App shows the dashboard, the collection is
\* the input d
InitBudget(d, b) ==
    /\ viewState = "DASHBOARD"
    /\ data = d
    /\ searchTerm = <<>>
    /\ startDate = <<>>
    /\ endDate = <<>>
    /\ filteredData = NotMounted
    /\ filteredPatients = NotMounted
    /\ selectedIds = {}
    /\ isFormOpen = FALSE
    /\ editingItem = <<>>
    /\ notification = NoNotification
    /\ sheet = d
    /\ ops = <<>>
    /\ started = 0
    /\ lastConfirm = <<>>
    /\ isLoading = FALSE
    /\ budget = b
    /\ request = <<>>
    /\ result = <<>>

\* the collection d loaded, no request in flight
InitWith(d) == InitBudget(d, MaxOps)

InitFilter == \E d \in Collections(FilterPool) : InitWith(d)

InitStats == \E d \in Collections(StatsPool) : InitWith(d)

\* NavItem onClick: setViewState(view); the view that was shown is
\* unmounted and the new one mounts with its useState('') defaults
SetViewState(view) ==
    /\ view # viewState
    /\ viewState' = view
    /\ searchTerm' = <<>>
    /\ startDate' = <<>>
    /\ endDate' = <<>>
    /\ selectedIds' = {}
    /\ isFormOpen' = FALSE
    /\ editingItem' = <<>>
    /\ ops' = Unmounted(ops)
    /\ lastConfirm' = <<>>
    /\ UNCHANGED restVars
    /\ UNCHANGED <<data, notification, sheet, started>>
    /\ Render(view, data, <<>>, <<>>, <<>>)

\* the search box onChange of DataTable and of ReportsPanel
SetSearchTerm(term) ==
    /\ viewState \in {"DATA_PASIEN", "REPORTS"}
    /\ searchTerm' = term
    /\ lastConfirm' = <<>>
    /\ UNCHANGED restVars
    /\ UNCHANGED <<viewState, data, startDate, endDate>>
    /\ UNCHANGED <<selectedIds, isFormOpen, editingItem, notification, sheet, ops, started>>
    /\ Render(viewState, data, term, startDate, endDate)

\* the start date input onChange of DataTable and of ReportsPanel
SetStartDate(date) ==
    /\ viewState \in {"DATA_PASIEN", "REPORTS"}
    /\ startDate' = date
    /\ lastConfirm' = <<>>
    /\ UNCHANGED restVars
    /\ UNCHANGED <<viewState, data, searchTerm, endDate>>
    /\ UNCHANGED <<selectedIds, isFormOpen, editingItem, notification, sheet, ops, started>>
    /\ Render(viewState, data, searchTerm, date, endDate)

\* the end date input onChange of DataTable and of ReportsPanel
SetEndDate(date) ==
    /\ viewState \in {"DATA_PASIEN", "REPORTS"}
    /\ endDate' = date
    /\ lastConfirm' = <<>>
    /\ UNCHANGED restVars
    /\ UNCHANGED <<viewState, data, searchTerm, startDate>>
    /\ UNCHANGED <<selectedIds, isFormOpen, editingItem, notification, sheet, ops, started>>
    /\ Render(viewState, data, searchTerm, startDate, date)

\* the reset button of DataTable and of ReportsPanel: the three setters
\* are called with ''
ResetFilters ==
    /\ viewState \in {"DATA_PASIEN", "REPORTS"}
    /\ searchTerm' = <<>>
    /\ startDate' = <<>>
    /\ endDate' = <<>>
    /\ lastConfirm' = <<>>
    /\ UNCHANGED restVars
    /\ UNCHANGED <<viewState, data>>
    /\ UNCHANGED <<selectedIds, isFormOpen, editingItem, notification, sheet, ops, started>>
    /\ Render(viewState, data, <<>>, <<>>, <<>>)

NextFilter ==
    \/ \E view \in ViewStates : SetViewState(view)
    \/ \E term \in SearchTerms : SetSearchTerm(term)
    \/ \E date \in DateInputs : SetStartDate(date)
    \/ \E date \in DateInputs : SetEndDate(date)
    \/ ResetFilters

NextStats ==
    \/ \E view \in ViewStates : SetViewState(view)
    \/ \E term \in StatsSearchTerms : SetSearchTerm(term)
    \/ \E date \in StatsDateInputs : SetStartDate(date)
    \/ \E date \in StatsDateInputs : SetEndDate(date)
    \/ ResetFilters

\* the views over collections that exercise the filters
SpecFilter == InitFilter /\ [][NextFilter]_vars

\* the views over collections that exercise the statistics
SpecStats == InitStats /\ [][NextStats]_vars

----------------------------------------------------------------------------
(* The remote sheet and the record store client *)

\* the records the sheet holds when the application starts
CrudPool == {
    [id |-> "r1", tanggal |-> <<"2", "0", "2", "4", "-", "0", "1", "-", "0", "5">>,
     noKib |-> <<"K", "1">>, namaPasien |-> <<"A", "d", "i">>,
     dpjp |-> <<"d", "r", " ", "B", "o">>,
     dokterSpesialis |-> <<"S", "p", "A">>,
     prioritas |-> "P1", ket |-> "Rawat Inap", jamDatang |-> <<"1", "4", ":", "3", "0">>],
    [id |-> "r2", tanggal |-> <<"2", "0", "2", "4", "-", "0", "1", "-", "0", "7">>,
     noKib |-> <<"K", "2">>, namaPasien |-> <<"B", "u", "d", "i">>,
     dpjp |-> <<>>,
     dokterSpesialis |-> <<"-">>,
     prioritas |-> "P2", ket |-> "Rawat Jalan", jamDatang |-> <<"0", "8", ":", "1", "5">>]}

\* doPost, action 'create': sheet.appendRow(row), the row starts with data.id
DoPostCreate(rows, record) == Append(rows, record)

\* the first row whose id cell is String(id), 0 when there is none
FirstRow(rows, id) ==
    IF \E i \in 1..Len(rows) : rows[i].id = id
    THEN CHOOSE i \in 1..Len(rows) :
            /\ rows[i].id = id
            /\ \A j \in 1..(i - 1) : rows[j].id # id
    ELSE 0

\* doPost, action 'update': the first row with the id is overwritten
DoPostUpdate(rows, record) ==
    LET i == FirstRow(rows, record.id)
    IN  IF i = 0 THEN rows ELSE [rows EXCEPT ![i] = record]

\* doPost, action 'delete': the first row with the id is deleted
DoPostDelete(rows, id) ==
    LET i == FirstRow(rows, id)
    IN  IF i = 0 THEN rows
        ELSE SubSeq(rows, 1, i - 1) \o SubSeq(rows, i + 1, Len(rows))

\* the ids of the records of a list
IdsOf(d) == {d[i].id : i \in 1..Len(d)}

\* the ids in use: in the sheet, in the collection, or held by a handler
\* call in flight
UsedIds ==
    IdsOf(sheet) \cup IdsOf(data)
      \cup UNION {IdsOf(ops[k].data) \cup IdsOf(ops[k].added)
                    \cup IdsOf(ops[k].record) \cup IdsOf(ops[k].items)
                  : k \in 1..Len(ops)}

\* the first identity of a list that is not in use, as a set; empty when
\* all are in use
Fresh(ids) ==
    IF \E i \in 1..Len(ids) : ids[i] \notin UsedIds
    THEN {ids[CHOOSE i \in 1..Len(ids) :
                /\ ids[i] \notin UsedIds
                /\ \A j \in 1..(i - 1) : ids[j] \in UsedIds]}
    ELSE {}

\* the identities the store side hands out, in this order
ServerIds == <<"n1", "n2", "n3", "n4", "n5", "n6", "n7", "n8">>

\* the identity a create is confirmed with: the one the record carries if
\* it carries one, or the next identity the store side hands out
StoreIds(record) ==
    (IF record.id # "" THEN {record.id} ELSE {}) \cup Fresh(ServerIds)

\* what a call of addPatientToDB ends with: an identity, no identity, or an
\* exception
CreateOutcomes == {"id", "none", "throws"}

\* what a call of updatePatientInDB or deletePatientFromDB ends with
CallOutcomes == {"done", "throws"}

----------------------------------------------------------------------------
(* PatientForm and the inputs of the handlers *)

\* PatientForm: emptyRecord
emptyRecord ==
    [id |-> "", tanggal |-> <<"2", "0", "2", "4", "-", "0", "1", "-", "1", "0">>,
     noKib |-> <<>>, namaPasien |-> <<>>, dpjp |-> <<>>, dokterSpesialis |-> <<>>,
     prioritas |-> "P3", ket |-> "Rawat Jalan", jamDatang |-> <<>>]

\* handleChange: setFormData(prev => ({...prev, [name]: value})) for the
\* inputs the user types in; no input is named id
HandleChange(formData) ==
    {[formData EXCEPT !.noKib = <<"K", "3">>, !.namaPasien = <<"I", "d", "a">>]}

\* the formData of a form mounted with initialData and typed in
FormData(initialData) ==
    HandleChange(IF initialData # <<>> THEN initialData[1] ELSE emptyRecord)

\* values of Math.random().toString(36).substr(2, 9)
RandomIds == <<"c1", "c2", "c3", "c4">>

HandleSubmitRecordNewId(formData, random) == [formData EXCEPT !.id = random]

\* handleSubmit: {...formData, id: formData.id || random}
HandleSubmitRecord(formData, random) ==
    [formData EXCEPT !.id = IF formData.id # "" THEN formData.id ELSE random]

\* what a file chosen for import parses to
ImportFiles ==
    LET r1 == CHOOSE r \in CrudPool : r.id = "r1"
        i3 == [emptyRecord EXCEPT !.noKib = <<"K", "3">>,
                                  !.namaPasien = <<"I", "d", "a">>]
        i4 == [emptyRecord EXCEPT !.noKib = <<"1", "2">>,
                                  !.namaPasien = <<"a", "d", "i">>]
    IN  {[isArray |-> TRUE, items |-> <<r1, i3, i4>>],
         [isArray |-> TRUE, items |-> <<r1>>],
         [isArray |-> FALSE, items |-> <<>>]}

----------------------------------------------------------------------------
(* The handlers of DataTable *)

DataTableMounted == viewState = "DATA_PASIEN"

\* a handler call that awaits a remote response: its kind and arguments,
\* the data of the render it was created in (and the selectedIds, which
\* only the delete handlers read), whether its DataTable is still mounted,
\* and for an import the items, the number of create requests issued and
\* answered and the records added so far
Op(kind, record, id, confirmed, editing, items, issued) ==
    [kind |-> kind, data |-> data,
     selectedIds |-> IF items = <<>> /\ record = <<>> THEN selectedIds ELSE {},
     mounted |-> TRUE, record |-> record, id |-> id, confirmed |-> confirmed,
     editing |-> editing, items |-> items, issued |-> issued, answered |-> 0,
     added |-> <<>>]

\* the handler call k has returned
RemoveAt(pending, k) == SubSeq(pending, 1, k - 1) \o SubSeq(pending, k + 1, Len(pending))

\* data.filter(item => item.id !== id)
WithoutId(d, id) == SelectSeq(d, LAMBDA item : item.id # id)

\* data.map(item => item.id === record.id ? record : item)
Replaced(d, record) ==
    [i \in 1..Len(d) |-> IF d[i].id = record.id THEN record ELSE d[i]]

\* handleSelectAll
HandleSelectAll(checked) ==
    /\ DataTableMounted
    /\ selectedIds' = IF checked THEN IdsOf(filteredData) ELSE {}
    /\ lastConfirm' = <<>>
    /\ UNCHANGED restVars
    /\ UNCHANGED <<viewVars, isFormOpen, editingItem, notification, sheet, ops, started>>

\* handleAdd
HandleAdd ==
    /\ DataTableMounted
    /\ editingItem' = <<>>
    /\ isFormOpen' = TRUE
    /\ lastConfirm' = <<>>
    /\ UNCHANGED restVars
    /\ UNCHANGED <<viewVars, selectedIds, notification, sheet, ops, started>>

\* handleEdit of a row shown
HandleEdit(item) ==
    /\ DataTableMounted
    /\ \E i \in 1..Len(filteredData) : filteredData[i] = item
    /\ editingItem' = <<item>>
    /\ isFormOpen' = TRUE
    /\ lastConfirm' = <<>>
    /\ UNCHANGED restVars
    /\ UNCHANGED <<viewVars, selectedIds, notification, sheet, ops, started>>

ConfirmedAlways(answer) == TRUE

\* if (confirm(...)) { ... }: the body runs when the user answered yes
Confirmed(answer) == answer

\* the call of deletePatientFromDB(id) that handleDelete or
\* handleDeleteFromForm awaits
IssueDelete(kind, id, answer) ==
    /\ started < budget
    /\ started' = started + 1
    /\ ops' = Append(ops, Op(kind, <<>>, id, answer, FALSE, <<>>, 0))

\* handleDelete of a row shown, up to the await
HandleDelete(id, answer) ==
    /\ DataTableMounted
    /\ id \in IdsOf(filteredData)
    /\ lastConfirm' = <<[id |-> id, answer |-> answer]>>
    /\ UNCHANGED restVars
    /\ IF Confirmed(answer) THEN IssueDelete("handleDelete", id, answer)
       ELSE UNCHANGED <<ops, started>>
    /\ UNCHANGED <<viewVars, selectedIds, isFormOpen, editingItem, notification, sheet>>

\* PatientForm's handleDeleteClick and, when the user answered yes,
\* handleDeleteFromForm up to the await
HandleDeleteClick(answer) ==
    /\ DataTableMounted
    /\ isFormOpen
    /\ editingItem # <<>>
    /\ lastConfirm' = <<[id |-> editingItem[1].id, answer |-> answer]>>
    /\ UNCHANGED restVars
    /\ IF Confirmed(answer)
       THEN IssueDelete("handleDeleteFromForm", editingItem[1].id, answer)
       ELSE UNCHANGED <<ops, started>>
    /\ UNCHANGED <<viewVars, selectedIds, isFormOpen, editingItem, notification, sheet>>

AfterAwaitAlways(outcome, after, before) == after

\* try { await call(); state = after } catch { }: the value of a state the
\* statements after the await set, given its value before
AfterAwait(outcome, after, before) ==
    IF outcome = "throws" THEN before ELSE after

\* the rest of handleDelete and of handleDeleteFromForm: after the await,
\* or the catch block
DeleteResponse(k, outcome) ==
    LET op == ops[k]
        newSelected == IF op.mounted /\ op.id \in op.selectedIds
                       THEN op.selectedIds \ {op.id} ELSE selectedIds
    IN  /\ op.kind \in {"handleDelete", "handleDeleteFromForm"}
        /\ ops' = RemoveAt(ops, k)
        /\ lastConfirm' = <<>>
        /\ UNCHANGED restVars
        /\ sheet' = IF outcome = "done" THEN DoPostDelete(sheet, op.id) ELSE sheet
        /\ data' = AfterAwait(outcome, WithoutId(op.data, op.id), data)
        /\ selectedIds' = AfterAwait(outcome, newSelected, selectedIds)
        /\ IF outcome = "done" /\ op.kind = "handleDeleteFromForm" /\ op.mounted
           THEN isFormOpen' = FALSE /\ editingItem' = <<>>
           ELSE UNCHANGED <<isFormOpen, editingItem>>
        /\ notification' = IF outcome = "done" THEN "Data pasien berhasil dihapus."
                           ELSE "Gagal menghapus data."
        /\ UNCHANGED <<viewState, searchTerm, startDate, endDate, started>>
        /\ Render(viewState, data', searchTerm, startDate, endDate)

\* PatientForm's handleSubmit and handleSaveForm up to the await
HandleSubmit(formData) ==
    /\ DataTableMounted
    /\ isFormOpen
    /\ started < budget
    /\ \E random \in Fresh(RandomIds) :
          ops' = Append(ops, Op("handleSaveForm",
                                <<HandleSubmitRecord(formData, random)>>, "",
                                FALSE, editingItem # <<>>, <<>>, 0))
    /\ started' = started + 1
    /\ lastConfirm' = <<>>
    /\ UNCHANGED restVars
    /\ UNCHANGED <<viewVars, selectedIds, isFormOpen, editingItem, notification, sheet>>

\* setIsFormOpen(false); setEditingItem(null) of a DataTable still mounted
CloseForm(op) ==
    IF op.mounted THEN isFormOpen' = FALSE /\ editingItem' = <<>>
    ELSE UNCHANGED <<isFormOpen, editingItem>>

\* the rest of handleSaveForm in edit mode: after await updatePatientInDB,
\* or the catch block
UpdateResponse(k, outcome) ==
    LET op == ops[k]
        record == op.record[1]
    IN  /\ op.kind = "handleSaveForm"
        /\ op.editing
        /\ ops' = RemoveAt(ops, k)
        /\ lastConfirm' = <<>>
        /\ UNCHANGED restVars
        /\ sheet' = IF outcome = "done" THEN DoPostUpdate(sheet, record) ELSE sheet
        /\ data' = AfterAwait(outcome, Replaced(op.data, record), data)
        /\ IF outcome = "done" THEN CloseForm(op)
           ELSE UNCHANGED <<isFormOpen, editingItem>>
        /\ notification' = IF outcome = "done"
                           THEN "Perubahan data berhasil disimpan ke Sheet."
                           ELSE "Gagal menyimpan data ke database."
        /\ UNCHANGED <<viewState, searchTerm, startDate, endDate, selectedIds, started>>
        /\ Render(viewState, data', searchTerm, startDate, endDate)

\* what await addPatientToDB(record) gives when it does not throw: the
\* identity the row was created with, or '' for no identity
NewIds(outcome, record) == IF outcome = "id" THEN StoreIds(record) ELSE {""}

TruthyIdAlways(newId) == TRUE

\* if (newId)
TruthyId(newId) == newId # ""

AddedWithClientId(record, newId) == record

\* { ...record, id: newId }
AddedRecord(record, newId) == [record EXCEPT !.id = newId]

\* the rest of handleSaveForm in create mode: after await addPatientToDB,
\* or the catch block
CreateResponse(k, outcome) ==
    LET op == ops[k]
        record == op.record[1]
    IN  /\ op.kind = "handleSaveForm"
        /\ ~op.editing
        /\ ops' = RemoveAt(ops, k)
        /\ lastConfirm' = <<>>
        /\ UNCHANGED restVars
        /\ IF outcome = "throws"
           THEN /\ notification' = "Gagal menyimpan data ke database."
                /\ UNCHANGED <<sheet, data, isFormOpen, editingItem>>
           ELSE \E newId \in NewIds(outcome, record) :
                  /\ sheet' = IF newId # ""
                              THEN DoPostCreate(sheet, [record EXCEPT !.id = newId])
                              ELSE sheet
                  /\ IF TruthyId(newId)
                     THEN /\ data' = <<AddedRecord(record, newId)>> \o op.data
                          /\ notification' = "Data pasien baru berhasil ditambahkan."
                     ELSE UNCHANGED <<data, notification>>
                  /\ CloseForm(op)
        /\ UNCHANGED <<viewState, searchTerm, startDate, endDate, selectedIds, started>>
        /\ Render(viewState, data', searchTerm, startDate, endDate)

\* importedData.filter(d => !existingRMs.has(d.noKib)), existingRMs the
\* noKib values of data
NewItems(importedData, d) ==
    SelectSeq(importedData,
              LAMBDA item : \A i \in 1..Len(d) : d[i].noKib # item.noKib)

IssuedAllAtOnce(answered, n) == n

\* for (const item of newItems) { await addPatientToDB(item) ... }: the
\* number of create calls made once `answered` of the n calls have returned
Issued(answered, n) == answered + 1

\* handleFileImport and reader.onload up to the first await
HandleFileImport(file, answer) ==
    LET newItems == NewItems(file.items, data)
    IN  /\ DataTableMounted
        /\ lastConfirm' = <<>>
        /\ UNCHANGED restVars
        /\ IF file.isArray /\ answer
           THEN IF Len(newItems) = 0
                THEN /\ notification' = "Semua data sudah ada di database."
                     /\ UNCHANGED <<ops, started>>
                ELSE /\ started < budget
                     /\ started' = started + 1
                     /\ ops' = Append(ops, Op("handleFileImport", <<>>, "", FALSE,
                                              FALSE, newItems,
                                              Issued(0, Len(newItems))))
                     /\ UNCHANGED notification
           ELSE UNCHANGED <<notification, ops, started>>
        /\ UNCHANGED <<viewVars, selectedIds, isFormOpen, editingItem, sheet>>

\* reader.onload after an await addPatientToDB(item) of the loop: the next
\* turn of the loop, the statements after the loop, or the catch block
ImportResponse(k, outcome) ==
    LET op == ops[k]
        n == Len(op.items)
        item == op.items[op.answered + 1]
        answered == op.answered + 1
    IN  /\ op.kind = "handleFileImport"
        /\ op.answered < op.issued
        /\ lastConfirm' = <<>>
        /\ UNCHANGED restVars
        /\ IF outcome = "throws"
           THEN /\ ops' = RemoveAt(ops, k)
                /\ UNCHANGED <<sheet, data, notification>>
           ELSE \E newId \in NewIds(outcome, item) :
                  LET addedItems == IF TruthyId(newId)
                                    THEN Append(op.added, AddedRecord(item, newId))
                                    ELSE op.added
                  IN  /\ sheet' = IF newId # ""
                                  THEN DoPostCreate(sheet, [item EXCEPT !.id = newId])
                                  ELSE sheet
                      /\ IF answered < n
                         THEN /\ ops' = [ops EXCEPT ![k] =
                                           [op EXCEPT !.answered = answered,
                                                      !.added = addedItems,
                                                      !.issued = Issued(answered, n)]]
                              /\ UNCHANGED <<data, notification>>
                         ELSE /\ ops' = RemoveAt(ops, k)
                              /\ data' = addedItems \o op.data
                              /\ notification' =
                                    "Berhasil mengimpor " \o ToString(Len(addedItems))
                                      \o " data ke database."
        /\ UNCHANGED <<viewState, searchTerm, startDate, endDate, selectedIds,
                       isFormOpen, editingItem, started>>
        /\ Render(viewState, data', searchTerm, startDate, endDate)

\* the views the handlers are exercised in
CrudViews == {"DASHBOARD", "DATA_PASIEN"}

Next ==
    \/ \E view \in CrudViews : SetViewState(view)
    \/ \E checked \in BOOLEAN : HandleSelectAll(checked)
    \/ HandleAdd
    \/ \E i \in 1..Len(data) : HandleEdit(data[i])
    \/ \E id \in IdsOf(data), answer \in BOOLEAN : HandleDelete(id, answer)
    \/ \E answer \in BOOLEAN : HandleDeleteClick(answer)
    \/ \E formData \in FormData(editingItem) : HandleSubmit(formData)
    \/ \E file \in ImportFiles, answer \in BOOLEAN : HandleFileImport(file, answer)
    \/ \E k \in 1..Len(ops), outcome \in CallOutcomes : DeleteResponse(k, outcome)
    \/ \E k \in 1..Len(ops), outcome \in CallOutcomes : UpdateResponse(k, outcome)
    \/ \E k \in 1..Len(ops), outcome \in CreateOutcomes : CreateResponse(k, outcome)
    \/ \E k \in 1..Len(ops), outcome \in CreateOutcomes : ImportResponse(k, outcome)

\* the collections loaded when the application starts: the records of the
\* sheet, the oldest last
CrudCollections ==
    {d \in Collections(CrudPool) : Len(d) >= 1 /\ d[Len(d)].id = "r2"}

Init == \E d \in CrudCollections : InitWith(d)

\* the data table with its handlers and the remote sheet
Spec == Init /\ [][Next]_vars

----------------------------------------------------------------------------
(* App: fetchData and the manual refresh *)

\* doPost, action 'read': one object per row below the header, keyed by the
\* header cells, in the order of the rows
DoPostRead(rows) == [i \in 1..Len(rows) |-> rows[i]]

\* what getPatientsFromDB does: it returns the rows read or throws
FetchOutcomes == {"done", "throws"}

\* a fetchData call in flight, started by the effect on mount or by
\* handleManualRefresh
FetchOp(kind) ==
    [Op(kind, <<>>, "", FALSE, FALSE, <<>>, 0) EXCEPT !.data = <<>>,
                                                      !.selectedIds = {}]

IsFetch(op) == op.kind \in {"fetchData", "handleManualRefresh"}

\* handleManualRefresh up to the await in fetchData: the refresh button of
\* the dashboard and of the data table is disabled while isLoading
HandleManualRefresh ==
    /\ viewState \in {"DASHBOARD", "DATA_PASIEN"}
    /\ ~isLoading
    /\ started < budget
    /\ isLoading' = TRUE
    /\ ops' = Append(ops, FetchOp("handleManualRefresh"))
    /\ started' = started + 1
    /\ lastConfirm' = <<>>
    /\ UNCHANGED <<viewVars, selectedIds, isFormOpen, editingItem, notification,
                   sheet, budget, request, result>>

\* fetchData after the await, and the rest of handleManualRefresh when the
\* call came from there
FetchResponse(k, outcome) ==
    LET op == ops[k]
    IN  /\ IsFetch(op)
        /\ ops' = RemoveAt(ops, k)
        /\ lastConfirm' = <<>>
        /\ data' = IF outcome = "done" THEN DoPostRead(sheet) ELSE data
        /\ isLoading' = FALSE
        /\ notification' =
              IF op.kind = "handleManualRefresh"
              THEN "Data berhasil disinkronisasi dengan Google Sheet."
              ELSE IF outcome = "throws"
                   THEN "Gagal terhubung ke Google Sheets. Cek koneksi internet."
                   ELSE notification
        /\ UNCHANGED <<viewState, searchTerm, startDate, endDate, selectedIds,
                       isFormOpen, editingItem, sheet, started, budget, request,
                       result>>
        /\ Render(viewState, data', searchTerm, startDate, endDate)

\* the state after construction: nothing loaded yet, the effect on mount has
\* called fetchData
InitApp ==
    \E d \in CrudCollections :
        /\ viewState = "DASHBOARD"
        /\ data = <<>>
        /\ searchTerm = <<>>
        /\ startDate = <<>>
        /\ endDate = <<>>
        /\ filteredData = NotMounted
        /\ filteredPatients = NotMounted
        /\ selectedIds = {}
        /\ isFormOpen = FALSE
        /\ editingItem = <<>>
        /\ notification = NoNotification
        /\ sheet = d
        /\ ops = <<[FetchOp("fetchData") EXCEPT !.data = <<>>]>>
        /\ started = 0
        /\ lastConfirm = <<>>
        /\ isLoading = TRUE
        /\ budget = MaxOverlap
        /\ request = <<>>
        /\ result = <<>>

NextApp ==
    \/ SetViewState("DATA_PASIEN")
    \/ HandleAdd
    \/ \E i \in 1..Len(data) : HandleEdit(data[i])
    \/ \E id \in IdsOf(data), answer \in BOOLEAN : HandleDelete(id, answer)
    \/ \E formData \in FormData(editingItem) : HandleSubmit(formData)
    \/ HandleManualRefresh
    \/ \E k \in 1..Len(ops), outcome \in CallOutcomes : DeleteResponse(k, outcome)
    \/ \E k \in 1..Len(ops), outcome \in CallOutcomes : UpdateResponse(k, outcome)
    \/ \E k \in 1..Len(ops), outcome \in CreateOutcomes : CreateResponse(k, outcome)
    \/ \E k \in 1..Len(ops), outcome \in FetchOutcomes : FetchResponse(k, outcome)

\* App with its data table: the load on mount, the manual refresh and the
\* single-record handlers, whose calls may overlap
SpecApp == InitApp /\ [][NextApp]_vars

----------------------------------------------------------------------------
(* The sheet script: doPost *)

\* largest number of rows of the sheet below its header
MaxRows == 2

\* a JavaScript string and a JavaScript number, by type and by the text
\* String() gives for it
JsString(text) == [type |-> "string", text |-> text]
JsNumber(text) == [type |-> "number", text |-> text]

StringStrict(value) == value

\* String(value)
String(value) == value.text

\* a || b on numbers: 0 (as a missing value) is falsy
Or(a, b) == IF a # 0 THEN a ELSE b

\* the ids a request carries: none, a string, a number
RequestIds == {JsString(""), JsString("12"), JsNumber("12")}

\* JSON.parse(params.data): the record of a create or an update request,
\* with its id, its sequence number and, for the other fields, its name
RequestRecords ==
    {[id |-> id, no |-> f.no, namaPasien |-> f.namaPasien] :
        id \in RequestIds,
        f \in {[no |-> 7, namaPasien |-> "Adi"], [no |-> 0, namaPasien |-> "Budi"]}}

\* new Date()
Dates == {1, 2}

\* doPost, action 'create': the row appended
Row(record, now) ==
    [id |-> record.id, no |-> Or(record.no, 0), namaPasien |-> record.namaPasien,
     createdAt |-> now]

\* the first row i with String(rows[i][0]) === String(id), 0 when there is
\* none
Matching(rows, id) ==
    LET found == {i \in 1..Len(rows) : String(rows[i].id) = String(id)}
    IN  IF found = {} THEN 0
        ELSE CHOOSE i \in found : \A j \in found : i <= j

\* doPost, action 'update': updateValues written over columns 1 to 16 of
\* the row
UpdateValues(record, row) ==
    [row EXCEPT !.id = record.id, !.no = Or(record.no, row.no),
                !.namaPasien = record.namaPasien]

\* doPost, action 'read': getDisplayValues() of the rows, every cell as text
DisplayValues(rows) ==
    [i \in 1..Len(rows) |->
        [id |-> String(rows[i].id), no |-> ToString(rows[i].no),
         namaPasien |-> rows[i].namaPasien,
         createdAt |-> ToString(rows[i].createdAt)]]

\* doPost: the rows of the sheet after the request and the result returned
DoPostResult(rows, params, now) ==
    CASE params.action = "create" ->
           [rows |-> Append(rows, Row(params.data, now)),
            result |-> [status |-> "success", id |-> params.data.id]]
      [] params.action = "read" ->
           [rows |-> rows, result |-> DisplayValues(rows)]
      [] params.action = "update" ->
           LET i == Matching(rows, params.data.id)
           IN  [rows |-> IF i = 0 THEN rows
                         ELSE [rows EXCEPT ![i] = UpdateValues(params.data, rows[i])],
                result |-> [status |-> IF i = 0 THEN "warning" ELSE "success"]]
      [] params.action = "delete" ->
           LET i == Matching(rows, params.id)
           IN  [rows |-> IF i = 0 THEN rows ELSE RemoveAt(rows, i),
                result |-> [status |-> "success"]]

\* one call of doPost with the parameters of the request
DoPost(params, now) ==
    /\ sheet' = DoPostResult(sheet, params, now).rows
    /\ result' = DoPostResult(sheet, params, now).result
    /\ UNCHANGED <<viewVars, selectedIds, isFormOpen, editingItem, notification,
                   ops, started, lastConfirm, isLoading, budget>>

\* the sheet 'Data' as the script creates it: the header row only
InitStore == InitBudget(<<>>, 0)

\* a create request
Create(record, now) ==
    /\ Len(sheet) < MaxRows
    /\ request' = [action |-> "create", data |-> record]
    /\ DoPost(request', now)

\* a read request
Read(now) ==
    /\ request' = [action |-> "read"]
    /\ DoPost(request', now)

\* an update request
Update(record, now) ==
    /\ request' = [action |-> "update", data |-> record]
    /\ DoPost(request', now)

\* a delete request: e.parameter.id is text
Delete(id, now) ==
    /\ request' = [action |-> "delete", id |-> JsString(String(id))]
    /\ DoPost(request', now)

NextStore ==
    \/ \E record \in RequestRecords, now \in Dates : Create(record, now)
    \/ \E now \in Dates : Read(now)
    \/ \E record \in RequestRecords, now \in Dates : Update(record, now)
    \/ \E id \in RequestIds, now \in Dates : Delete(id, now)

\* the sheet script serving create, read, update and delete requests
SpecStore == InitStore /\ [][NextStore]_vars

\* files whose list holds the same record twice
RepeatingFiles ==
    LET r1 == CHOOSE r \in CrudPool : r.id = "r1"
    IN  {[isArray |-> TRUE, items |-> <<r1, r1>>]}

NextImport ==
    \/ Next
    \/ \E file \in RepeatingFiles, answer \in BOOLEAN : HandleFileImport(file, answer)

\* the data table when the files imported may repeat a record
SpecImport == Init /\ [][NextImport]_vars

----------------------------------------------------------------------------
(* Properties of the record filters, checked under SpecFilter *)

\* a is a proper prefix of b, or smaller at the first position they differ
LexLess(a, b) ==
    \E k \in 0..Len(a) :
        /\ k <= Len(b)
        /\ \A j \in 1..k : a[j] = b[j]
        /\ \/ k = Len(a) /\ k < Len(b)
           \/ k < Len(a) /\ k < Len(b) /\ CodeUnit[a[k + 1]] < CodeUnit[b[k + 1]]

\* t occurs in f; with fold, letter case is ignored
Occurs(f, t, fold) ==
    \E i \in 0..(Len(f) - Len(t)) :
        \A j \in 1..Len(t) :
            IF fold THEN LowerChar(f[i + j]) = LowerChar(t[j]) ELSE f[i + j] = t[j]

\* the date criteria: each bound, when present, is inclusive
StartCriterion(r, start) == start = <<>> \/ ~LexLess(r.tanggal, start)
EndCriterion(r, end) == end = <<>> \/ ~LexLess(end, r.tanggal)

\* the text criterion of the data-table view and of the reports view
DataTableTextCriterion(r, term) ==
    \/ Occurs(r.namaPasien, term, TRUE)
    \/ Occurs(r.noKib, term, TRUE)
    \/ Occurs(r.dpjp, term, TRUE)
ReportsTextCriterion(r, term) ==
    term = <<>> \/ Occurs(r.namaPasien, term, TRUE) \/ Occurs(r.noKib, term, FALSE)

\* res is d restricted to the index set K, in the order of d
IsSelection(res, d, K) ==
    /\ Len(res) = Cardinality(K)
    /\ \A i \in K : res[1 + Cardinality({j \in K : j < i})] = d[i]

\* the result of the mounted view's filter
MountedResult == IF viewState = "DATA_PASIEN" THEN filteredData ELSE filteredPatients
FilterMounted == viewState \in {"DATA_PASIEN", "REPORTS"}

\* C1: the filter returns exactly the records that satisfy the start-date,
\* the end-date and the text criterion together, in their original order and
\* each once; an empty collection or a filter nothing matches gives the
\* empty result
C1_FilterIsConjunction ==
    /\ viewState = "DATA_PASIEN" =>
          IsSelection(filteredData, data,
              {i \in 1..Len(data) :
                  /\ StartCriterion(data[i], startDate)
                  /\ EndCriterion(data[i], endDate)
                  /\ DataTableTextCriterion(data[i], searchTerm)})
    /\ viewState = "REPORTS" =>
          IsSelection(filteredPatients, data,
              {i \in 1..Len(data) :
                  /\ StartCriterion(data[i], startDate)
                  /\ EndCriterion(data[i], endDate)
                  /\ ReportsTextCriterion(data[i], searchTerm)})

\* a reports filter with all three criteria set that keeps the first and the
\* last of three records
C1_Witness ==
    /\ viewState = "REPORTS"
    /\ searchTerm # <<>> /\ startDate # <<>> /\ endDate # <<>>
    /\ Len(data) = 3
    /\ filteredPatients = <<data[1], data[3]>>

\* C2: date bounds are inclusive (a record dated exactly at a bound passes
\* that bound) and an absent bound imposes no constraint: with no criteria
\* the collection is returned unchanged, and filtering the result once more
\* with no bounds changes nothing
C2_InclusiveBounds ==
    /\ viewState = "DATA_PASIEN" =>
          /\ \A i \in 1..Len(data) :
                /\ (startDate # <<>> /\ data[i].tanggal = startDate)
                      => FilteredData(<<data[i]>>, <<>>, startDate, <<>>) = <<data[i]>>
                /\ (endDate # <<>> /\ data[i].tanggal = endDate)
                      => FilteredData(<<data[i]>>, <<>>, <<>>, endDate) = <<data[i]>>
          /\ FilteredData(data, <<>>, <<>>, <<>>) = data
          /\ FilteredData(filteredData, searchTerm, <<>>, <<>>) = filteredData
          /\ FilteredData(filteredData, <<>>, <<>>, <<>>) = filteredData
    /\ viewState = "REPORTS" =>
          /\ \A i \in 1..Len(data) :
                /\ (startDate # <<>> /\ data[i].tanggal = startDate)
                      => FilteredPatients(<<data[i]>>, <<>>, startDate, <<>>) = <<data[i]>>
                /\ (endDate # <<>> /\ data[i].tanggal = endDate)
                      => FilteredPatients(<<data[i]>>, <<>>, <<>>, endDate) = <<data[i]>>
          /\ FilteredPatients(data, <<>>, <<>>, <<>>) = data
          /\ FilteredPatients(filteredPatients, searchTerm, <<>>, <<>>) = filteredPatients
          /\ FilteredPatients(filteredPatients, <<>>, <<>>, <<>>) = filteredPatients

\* the data table filtered by a range whose two bounds are dates of kept
\* records, with another record outside the range
C2_Witness ==
    /\ viewState = "DATA_PASIEN"
    /\ startDate # <<>> /\ endDate # <<>> /\ startDate # endDate
    /\ Len(filteredData) = 2 /\ Len(data) = 3
    /\ filteredData[1].tanggal = startDate
    /\ filteredData[2].tanggal = endDate

\* C3: at every call site the text match ignores letter case: a search text
\* that differs from the current one only in letter case keeps the same
\* records
C3_CaseInsensitive ==
    \A term \in SearchTerms :
        toLowerCase(term) = toLowerCase(searchTerm) =>
            /\ viewState = "DATA_PASIEN" =>
                  FilteredData(data, term, startDate, endDate) = filteredData
            /\ viewState = "REPORTS" =>
                  FilteredPatients(data, term, startDate, endDate) = filteredPatients

\* C4: the data-table filter and the reports filter return the same
\* sequence for the same collection and criteria
C4_SameFilter ==
    /\ viewState = "DATA_PASIEN" =>
          filteredData = FilteredPatients(data, searchTerm, startDate, endDate)
    /\ viewState = "REPORTS" =>
          filteredPatients = FilteredData(data, searchTerm, startDate, endDate)

\* C5: filtering is idempotent: filtering the result again by the same
\* criteria returns the same result
C5_Idempotent ==
    /\ viewState = "DATA_PASIEN" =>
          FilteredData(filteredData, searchTerm, startDate, endDate) = filteredData
    /\ viewState = "REPORTS" =>
          FilteredPatients(filteredPatients, searchTerm, startDate, endDate)
              = filteredPatients

\* the data table with a filter that drops two records in a row and keeps one
C5_Witness ==
    /\ viewState = "DATA_PASIEN"
    /\ Len(data) = 3
    /\ filteredData = <<data[3]>>
    /\ searchTerm # <<>>

\* C6: when both bounds are set and the start is later than the end, the
\* result is empty for every collection
C6_ReversedBoundsEmpty ==
    (FilterMounted /\ startDate # <<>> /\ endDate # <<>> /\ LexLess(endDate, startDate))
        => MountedResult = <<>>

\* the reports view with reversed bounds over records dated inside the
\* reversed range
C6_Witness ==
    /\ viewState = "REPORTS"
    /\ startDate # <<>> /\ endDate # <<>> /\ LexLess(endDate, startDate)
    /\ searchTerm = <<>>
    /\ \E i \in 1..Len(data) :
          ~LexLess(data[i].tanggal, endDate) /\ ~LexLess(startDate, data[i].tanggal)
    /\ filteredPatients = <<>>

----------------------------------------------------------------------------
(* Properties of the derived statistics, checked under SpecStats *)

StatsMounted == viewState \in {"DASHBOARD", "REPORTS"}

\* the records of the statistics' input that satisfy P
CountWhere(P(_)) == Cardinality({i \in 1..Len(patients) : P(patients[i])})

\* the arrival time jam reads h hours: h in decimal, with or without a
\* leading zero, and then a colon
HourIs(jam, h) ==
    \E pre \in {NatToString(h)} \cup (IF h < 10 THEN {<<"0">> \o NatToString(h)} ELSE {}) :
        /\ Len(jam) > Len(pre)
        /\ SubSeq(jam, 1, Len(pre)) = pre
        /\ jam[Len(pre) + 1] = ":"

\* C7: the priority breakdown has exactly the entries P1..P5 in that order,
\* each with the number of records of that class (0 when there is none);
\* when every record has a class among P1..P5 the counts sum to the size of
\* the collection
C7_PriorityBreakdown ==
    StatsMounted =>
        /\ Len(priorityData) = 5
        /\ \A k \in 1..5 :
              LET class == <<"P1", "P2", "P3", "P4", "P5">>[k]
                  HasClass(r) == r.prioritas = class
              IN  /\ priorityData[k].name = class
                  /\ priorityData[k].value = CountWhere(HasClass)
        /\ (\A i \in 1..Len(patients) :
                patients[i].prioritas \in {"P1", "P2", "P3", "P4", "P5"})
              => priorityData[1].value + priorityData[2].value
                 + priorityData[3].value + priorityData[4].value
                 + priorityData[5].value = Len(patients)

\* the reports view over three filtered records of valid classes, two of
\* them in one class, so that some class has count 0
C7_Witness ==
    /\ viewState = "REPORTS"
    /\ Len(filteredPatients) = 3
    /\ \A i \in 1..3 : filteredPatients[i].prioritas \in {"P1", "P2", "P3", "P4", "P5"}
    /\ \E k \in 1..5 : priorityData[k].value = 2
    /\ \E k \in 1..5 : priorityData[k].value = 0
    /\ priorityData[5].value = 1

\* C8: the disposition breakdown has exactly one entry for each ket value
\* that occurs, with the number of records of that ket as its count; no
\* entry has count 0
C8_DispositionBreakdown ==
    StatsMounted =>
        /\ {statusData[k].name : k \in 1..Len(statusData)}
              = {patients[i].ket : i \in 1..Len(patients)}
        /\ \A k, l \in 1..Len(statusData) :
              statusData[k].name = statusData[l].name => k = l
        /\ \A k \in 1..Len(statusData) :
              LET HasKet(r) == r.ket = statusData[k].name
              IN  /\ statusData[k].value = CountWhere(HasKet)
                  /\ statusData[k].value > 0

\* the dashboard over three records with two dispositions
C8_Witness ==
    /\ viewState = "DASHBOARD"
    /\ Len(data) = 3
    /\ Len(statusData) = 2
    /\ statusData[1].value = 2
    /\ statusData[2].value = 1

\* C9: every record contributes to the histogram at most once: a record
\* whose arrival time reads hour h in 0..23 adds one to bucket h and to no
\* other; any other record changes no bucket and adds none beyond the 24
C9_HourHistogram ==
    StatsMounted =>
        LET bins == timeBins
        IN  /\ DOMAIN bins = 0..23
            /\ \A h \in 0..23 :
                  LET ArrivedAt(r) == HourIs(r.jamDatang, h)
                  IN  bins[h] = JsNum(CountWhere(ArrivedAt))

\* the names of the 17 entries of the arrival trend
TrendNames ==
    <<<<"6", ":", "0", "0">>,
     <<"7", ":", "0", "0">>,
     <<"8", ":", "0", "0">>,
     <<"9", ":", "0", "0">>,
     <<"1", "0", ":", "0", "0">>,
     <<"1", "1", ":", "0", "0">>,
     <<"1", "2", ":", "0", "0">>,
     <<"1", "3", ":", "0", "0">>,
     <<"1", "4", ":", "0", "0">>,
     <<"1", "5", ":", "0", "0">>,
     <<"1", "6", ":", "0", "0">>,
     <<"1", "7", ":", "0", "0">>,
     <<"1", "8", ":", "0", "0">>,
     <<"1", "9", ":", "0", "0">>,
     <<"2", "0", ":", "0", "0">>,
     <<"2", "1", ":", "0", "0">>,
     <<"2", "2", ":", "0", "0">>>>

\* C10: the arrival trend always has exactly the 17 entries of the hours 6
\* to 22, in ascending order, each with the number of records that arrived
\* in that hour; arrivals at other hours appear in no entry
C10_ArrivalTrend ==
    StatsMounted =>
        LET trend == arrivalTrendData
        IN  /\ Len(trend) = 17
            /\ \A k \in 1..17 :
                  LET ArrivedAt(r) == HourIs(r.jamDatang, k + 5)
                  IN  /\ trend[k].name = TrendNames[k]
                      /\ trend[k].pasien = JsNum(CountWhere(ArrivedAt))

\* the dashboard over an arrival inside the window, one at 23 h and one at
\* an hour that does not exist
C10_Witness ==
    /\ viewState = "DASHBOARD"
    /\ Len(data) = 3
    /\ \E i \in 1..3 : HourIs(data[i].jamDatang, 14)
    /\ \E i \in 1..3 : HourIs(data[i].jamDatang, 23)
    /\ \E i \in 1..3 : HourIs(data[i].jamDatang, 25)
    /\ arrivalTrendData[9].pasien = JsNum(1)

----------------------------------------------------------------------------
(* Properties of the dashboard's summary cards, checked under SpecStats *)

DashboardMounted == viewState = "DASHBOARD"

\* the names a specialist field can hold that count as a specialist
SpecialistNames == {<<"S", "p", "A">>, <<"S", "p", "B">>}

\* C11: the distinct-specialists card shows the number of different
\* dokterSpesialis values of the collection, empty and "-" values left
\* out and a value that several records share counted once; a collection
\* with only empty or "-" values shows 0
C11_DistinctSpecialists ==
    DashboardMounted =>
        /\ totalSpecialists =
              Cardinality({s \in SpecialistNames :
                             \E i \in 1..Len(data) : data[i].dokterSpesialis = s})
        /\ (\A i \in 1..Len(data) : data[i].dokterSpesialis \in {<<>>, <<"-">>})
              => totalSpecialists = 0

\* three records: two share a specialist, the third has "-"
C11_Witness ==
    /\ DashboardMounted
    /\ Len(data) = 3
    /\ \E i, j, k \in 1..3 :
          /\ i # j
          /\ data[i].dokterSpesialis = <<"S", "p", "A">>
          /\ data[j].dokterSpesialis = <<"S", "p", "A">>
          /\ data[k].dokterSpesialis = <<"-">>
    /\ totalSpecialists = 1

\* C12: the inpatient percentage is the number of "Rawat Inap" records
\* over the number of records, times 100, rounded to the nearest integer,
\* and 0 for the empty collection; it is never NaN and lies in 0..100
C12_InpatientPercentage ==
    DashboardMounted =>
        LET pct == rawatInapPercent
            count == Cardinality({i \in 1..Len(data) : data[i].ket = "Rawat Inap"})
            total == Len(data)
            twice == 2 * (100 * count - total * pct.val)
        IN  /\ ~pct.isNaN
            /\ pct.val \in 0..100
            /\ total = 0 => pct.val = 0
            /\ total > 0 => (twice <= total /\ -twice <= total)

\* two of three records are inpatients: 66.67 is shown as 67
C12_Witness ==
    /\ DashboardMounted
    /\ Len(data) = 3
    /\ Cardinality({i \in 1..Len(data) : data[i].ket = "Rawat Inap"}) = 2
    /\ rawatInapPercent = JsNum(67)

----------------------------------------------------------------------------
(* Properties of the handlers of DataTable, checked under Spec *)

\* the handler call k returns in this step
Returns(k) == ops' = RemoveAt(ops, k)

IsDelete(op) == op.kind \in {"handleDelete", "handleDeleteFromForm"}
IsUpdate(op) == op.kind = "handleSaveForm" /\ op.editing
IsCreate(op) == op.kind = "handleSaveForm" /\ ~op.editing
IsImport(op) == op.kind = "handleFileImport"

FailureMessages == {"Gagal menghapus data.", "Gagal menyimpan data ke database."}

\* C13: a step in which an update or a delete ends with its failure
\* message leaves the local collection, and the rows shown, as they were
C13_FailedUpdateDeleteKeepsData ==
    [][\A k \in 1..Len(ops) :
          (/\ Returns(k)
           /\ IsDelete(ops[k]) \/ IsUpdate(ops[k])
           /\ notification' \in FailureMessages)
          => (data' = data /\ filteredData' = filteredData)]_vars

\* a delete has failed and both records are still there
C13_Witness ==
    /\ notification = "Gagal menghapus data."
    /\ ops = <<>>
    /\ started = 1
    /\ Len(data) = 2
    /\ data = sheet

\* C14: a step in which a single-record create ends without a row having
\* been created in the sheet (the call threw, or gave no identity) leaves
\* the local collection as it was
C14_FailedCreateAddsNothing ==
    [][\A k \in 1..Len(ops) :
          (Returns(k) /\ IsCreate(ops[k]) /\ sheet' = sheet)
          => data' = data]_vars

\* a create has thrown: the form is still open in create mode and the
\* collection is the one loaded
C14_Witness ==
    /\ notification = "Gagal menyimpan data ke database."
    /\ ops = <<>>
    /\ started = 1
    /\ isFormOpen
    /\ editingItem = <<>>
    /\ data = sheet

\* C15: in a step in which a create of the form or of an import puts a row
\* in the sheet, the record the handler adds (to the collection, or to the
\* items the import merges at its end) carries the id of that row
C15_AddedCarriesStoreIdentity ==
    [][\A k \in 1..Len(ops) :
          (/\ Len(sheet') = Len(sheet) + 1
           /\ IsCreate(ops[k]) \/ IsImport(ops[k])
           /\ Returns(k) \/ (Len(ops') = Len(ops) /\ ops'[k] # ops[k]))
          => LET id == sheet'[Len(sheet')].id
                 added == Len(ops[k].added)
             IN  IF IsCreate(ops[k])
                 THEN /\ Len(data') = Len(ops[k].data) + 1
                      /\ data'[1].id = id
                 ELSE IF Returns(k)
                      THEN /\ Len(data') = Len(ops[k].data) + added + 1
                           /\ data'[added + 1].id = id
                      ELSE /\ Len(ops'[k].added) = added + 1
                           /\ ops'[k].added[added + 1].id = id]_vars

\* the form's record was created under an identity of the store's, not the
\* client's, and the collection holds it under that identity
C15_Witness ==
    /\ notification = "Data pasien baru berhasil ditambahkan."
    /\ Len(data) >= 1
    /\ data[1].id = "n1"
    /\ data[1].noKib = <<"K", "3">>
    /\ sheet[Len(sheet)] = data[1]

\* C16: a step issues a delete call only for the record whose prompt the
\* user answered yes to in that step, on both delete paths; a step in
\* which the user answered no issues no call and leaves the collection,
\* the sheet and the selection as they were
C16_DeleteNeedsConfirmation ==
    [][/\ \A k \in 1..Len(ops') :
            (IsDelete(ops'[k]) /\ Len(ops') = Len(ops) + 1 /\ k = Len(ops'))
            => lastConfirm' = <<[id |-> ops'[k].id, answer |-> TRUE]>>
       /\ (lastConfirm' # <<>> /\ ~lastConfirm'[1].answer)
            => UNCHANGED <<ops, data, sheet, selectedIds>>]_vars

\* the user answered yes to the prompt of the form's delete button while
\* rows were ticked, and the call is in flight
C16_Witness ==
    /\ lastConfirm = <<[id |-> "r1", answer |-> TRUE]>>
    /\ isFormOpen
    /\ selectedIds = {"r1", "r2"}
    /\ Len(ops) = 1
    /\ ops[1].kind = "handleDeleteFromForm"
    /\ ops[1].id = "r1"
    /\ ops[1].confirmed

\* the handler call appended to ops in this step, as a set
Issued1 == IF Len(ops') = Len(ops) + 1 THEN {ops'[Len(ops')]} ELSE {}

\* the items of a list whose noKib no record of the collection d has
NotInCollection(items, d) ==
    SelectSeq(items, LAMBDA item : \A i \in 1..Len(d) : d[i].noKib # item.noKib)

\* the number of rows an import has created when it ends in this step
CreatedBy(op) == Len(op.added) + (IF Len(sheet') = Len(sheet) + 1 THEN 1 ELSE 0)

\* C17: an import submits exactly the items of the file whose noKib no
\* record of the collection has: the import that starts holds these items
\* and the import that ends has had a create call answered for each of
\* them, and reports the number of rows created; when every item is a
\* duplicate the step issues no call and leaves the collection as it was
C17_ImportSubmitsNewItems ==
    [][/\ \A op \in Issued1 :
            IsImport(op) =>
                \E file \in ImportFiles :
                    /\ file.isArray
                    /\ op.items = NotInCollection(file.items, data)
                    /\ op.items # <<>>
       /\ \A k \in 1..Len(ops) :
            (IsImport(ops[k]) /\ Returns(k))
            => /\ ops[k].answered + 1 = Len(ops[k].items)
               /\ notification' = "Berhasil mengimpor "
                                    \o ToString(CreatedBy(ops[k]))
                                    \o " data ke database."
       /\ (notification' = "Semua data sudah ada di database."
             /\ notification # notification')
            => UNCHANGED <<ops, sheet, data>>]_vars

\* C18: while an import runs, exactly one of its create calls is in
\* flight: the call for the next item is made only when the one before
\* has been answered
C18_ImportOneAtATime ==
    \A k \in 1..Len(ops) :
        IsImport(ops[k]) =>
            /\ ops[k].issued = ops[k].answered + 1
            /\ ops[k].issued <= Len(ops[k].items)

\* the first create of an import has been answered and the second is in
\* flight
C18_Witness ==
    \E k \in 1..Len(ops) :
        /\ IsImport(ops[k])
        /\ Len(ops[k].items) = 2
        /\ ops[k].answered = 1
        /\ ops[k].issued = 2

\* C19: the collection stays as it is while an import runs, and the step
\* in which the import ends puts every record it created in the sheet in
\* front of the collection, in one update, whichever of its calls failed
C19_ImportMergesEveryCreated ==
    [][\A k \in 1..Len(ops) :
          IsImport(ops[k]) =>
              /\ (Len(ops') = Len(ops) /\ ops'[k] # ops[k]) => data' = data
              /\ Returns(k) =>
                    /\ Len(data') = CreatedBy(ops[k]) + Len(ops[k].data)
                    /\ \A i \in 1..Len(ops[k].added) :
                          data'[i] = ops[k].added[i]
                    /\ \A i \in 1..Len(ops[k].data) :
                          data'[CreatedBy(ops[k]) + i] = ops[k].data[i]]_vars

\* C20: the update a submit of the form in edit mode issues carries the
\* id of the record edited; an update that ends well replaces exactly the
\* records of the handler's collection that have this id and changes no
\* id; a delete that ends well removes exactly the records with its id
C20_IdentityNeverChanges ==
    [][/\ \A op \in Issued1 :
            IsUpdate(op) =>
                /\ editingItem # <<>>
                /\ op.record[1].id = editingItem[1].id
       /\ \A k \in 1..Len(ops) :
            (/\ Returns(k)
             /\ IsUpdate(ops[k])
             /\ notification' = "Perubahan data berhasil disimpan ke Sheet.")
            => LET old == ops[k].data
                   record == ops[k].record[1]
               IN  /\ Len(data') = Len(old)
                   /\ \A i \in 1..Len(old) :
                         /\ data'[i].id = old[i].id
                         /\ data'[i] = IF old[i].id = record.id THEN record
                                        ELSE old[i]
       /\ \A k \in 1..Len(ops) :
            (/\ Returns(k)
             /\ IsDelete(ops[k])
             /\ notification' = "Data pasien berhasil dihapus.")
            => data' = SelectSeq(ops[k].data,
                                 LAMBDA item : item.id # ops[k].id)]_vars

\* the record r1 was edited in the form and saved: the collection and the
\* sheet hold the new name under the id r1
C20_Witness ==
    /\ notification = "Perubahan data berhasil disimpan ke Sheet."
    /\ \E i \in 1..Len(data) :
          /\ data[i].id = "r1"
          /\ data[i].namaPasien = <<"I", "d", "a">>
          /\ \E j \in 1..Len(sheet) : sheet[j] = data[i]

----------------------------------------------------------------------------
(* Properties of the collection's ids and record numbers, checked under
   SpecImport *)

UniqueIds(d) == \A i, j \in 1..Len(d) : i # j => d[i].id # d[j].id

UniqueNoKib(d) == \A i, j \in 1..Len(d) : i # j => d[i].noKib # d[j].noKib

\* C21: no two records of the local collection have the same id
C21_UniqueIds == UniqueIds(data)

\* C30: the step in which an import ends leaves no two records of the
\* collection with the same noKib, if the collection the import started
\* from had none, whatever list was imported
C30_ImportKeepsNoKibUnique ==
    [][\A k \in 1..Len(ops) :
          (IsImport(ops[k]) /\ Returns(k) /\ UniqueNoKib(ops[k].data))
          => UniqueNoKib(data')]_vars

\* C29: every id of the selection is the id of a record of the collection
C29_SelectionWithinCollection ==
    DataTableMounted => selectedIds \subseteq IdsOf(data)

SuccessMessages ==
    {"Data pasien berhasil dihapus.", "Perubahan data berhasil disimpan ke Sheet.",
     "Data pasien baru berhasil ditambahkan."}

\* the handler call k returns in this step after its remote call succeeded
Succeeds(k) == Returns(k) /\ ~IsFetch(ops[k]) /\ notification' \in SuccessMessages

\* C24: while a handler call waits for its remote response the loading
\* flag is set
C24_InFlightSetsLoading == ops # <<>> => isLoading

RecordsOf(d) == {d[i] : i \in 1..Len(d)}

\* the local collection holds the records of the sheet
Agree(d, rows) == RecordsOf(d) = RecordsOf(rows)

\* C26: when the collection holds the records of the sheet, it still does
\* after a step in which a handler call returns with success, whatever
\* other calls were in flight with it
C26_OverlapLosesNothing ==
    [][\A k \in 1..Len(ops) :
          (Succeeds(k) /\ Agree(data, sheet)) => Agree(data', sheet')]_vars

\* C27: a step in which a single-record handler call returns with success
\* changes only its target in the collection: an edit replaces the record
\* with the saved id in place, a delete removes the records with the id, a
\* create puts the new record before the existing ones
C27_OnlyTargetChanges ==
    [][\A k \in 1..Len(ops) :
          Succeeds(k) =>
            /\ IsDelete(ops[k]) => data' = WithoutId(data, ops[k].id)
            /\ IsUpdate(ops[k]) => data' = Replaced(data, ops[k].record[1])
            /\ IsCreate(ops[k]) => Len(data') = Len(data) + 1 /\ Tail(data') = data]_vars

\* C28: a step in which a manual refresh ends with the message that the
\* data was synchronised leaves the collection with the rows of the sheet
C28_RefreshReportsSuccessOnlyOnSuccess ==
    [][\A k \in 1..Len(ops) :
          (/\ ops[k].kind = "handleManualRefresh"
           /\ Returns(k)
           /\ notification' = "Data berhasil disinkronisasi dengan Google Sheet.")
          => data' = DoPostRead(sheet)]_vars

\* C25: a step in which an import call ends, with all its records created
\* or with a failure, leaves a notification shown
C25_ImportEndIsNotified ==
    [][\A k \in 1..Len(ops) :
          (IsImport(ops[k]) /\ Returns(k)) => notification' # NoNotification]_vars

\* the rows whose id cell reads as the text of id
RowsWithId(rows, id) == {i \in 1..Len(rows) : rows[i].id.text = id.text}

\* what a step that serves an update request does: with no row of the id
\* nothing changes and the status is 'warning'; otherwise the status is
\* 'success', the first row of the id takes the record's values and keeps
\* its createdAt, and the other rows stay. keepsNo: a record without a
\* sequence number (0) leaves the row's sequence number as it was
UpdateContract(keepsNo) ==
    LET record == request'.data
        found == RowsWithId(sheet, record.id)
        i == CHOOSE i \in found : \A j \in found : i <= j
    IN  request'.action = "update" =>
          IF found = {}
          THEN sheet' = sheet /\ result'.status = "warning"
          ELSE /\ result'.status = "success"
               /\ Len(sheet') = Len(sheet)
               /\ \A j \in 1..Len(sheet) : j # i => sheet'[j] = sheet[j]
               /\ sheet'[i].id = record.id
               /\ sheet'[i].namaPasien = record.namaPasien
               /\ sheet'[i].createdAt = sheet[i].createdAt
               /\ sheet'[i].no = IF keepsNo /\ record.no = 0 THEN sheet[i].no
                                 ELSE record.no

\* C22: an update request overwrites every field but createdAt of the
\* first row whose id reads as the record's id, leaves the other rows and
\* reports success; with no such row it changes nothing and reports a
\* warning
C22_UpdateOverwritesAllFields == [][UpdateContract(FALSE)]_vars

\* C22, amended: as above, except that a record without a sequence number
\* leaves the sequence number of the row as it was
C22_UpdateKeepsNoWhenMissing == [][UpdateContract(TRUE)]_vars

\* an update without a sequence number has been served for a row that has
\* one
C22_Witness ==
    /\ request # <<>>
    /\ request.action = "update"
    /\ result.status = "success"
    /\ request.data.no = 0
    /\ \E i \in 1..Len(sheet) : sheet[i].id = request.data.id /\ sheet[i].no # 0

\* C23: a create request with an empty id is answered with a new identity:
\* one that is not empty and that no row had before
C23_CreateAssignsNewIdentity ==
    [][(request'.action = "create" /\ request'.data.id.text = "")
       => (result'.id.text # "" /\ RowsWithId(sheet, result'.id) = {})]_vars

====
